---- MODULE Spec2Model ----
(***************************************************************************)
(* Offline cache, pending-mutation queue and API orchestration of the      *)
(* food diary client (static/js/main.js: AppCache, OfflineQueue, API and   *)
(* the DOMContentLoaded handler).                                          *)
(*                                                                         *)
(* One browser tab, one page session.  localStorage is the pair            *)
(* cacheStore / queueStore.  Every pending async API call is a record in   *)
(* `calls`; it is suspended exactly where the code awaits (fetch,          *)
(* response.json()).  The code between two awaits runs as one atomic       *)
(* action.  A call that settles leaves `calls` and becomes `last`.         *)
(***************************************************************************)
EXTENDS Integers, Sequences, FiniteSets, TLC

VARIABLES
    now,          \* Date.now(), milliseconds
    ticks,        \* number of clock advances so far (bounds the model)
    cacheStore,   \* localStorage['food_diary_cache']
    queueStore,   \* localStorage['food_diary_queue']
    calls,        \* the API calls that are suspended on an await, in call order
    started,      \* number of API calls made so far
    last,         \* the call that settled most recently, with its outcome
    server,       \* what the remote service has acknowledged of the queue
    page          \* the DOMContentLoaded handler: has it run, what it saw

vars == <<now, ticks, cacheStore, queueStore, calls, started, last, server, page>>

----------------------------------------------------------------------------
(* Bounds of the model *)

MaxCalls == 2
MaxTicks == 1

----------------------------------------------------------------------------
(* Program constants *)

CACHE_VERSION == "1.0"
OLD_VERSION == "0.9"
TEMP_PREFIX == "temp_"
fiveMinutes == 5 * 60 * 1000

----------------------------------------------------------------------------
(* Values held by localStorage under one key *)

Absent == [kind |-> "absent"]            \* getItem returns null
Corrupt == [kind |-> "corrupt"]          \* a string JSON.parse rejects
Stringify(v) == [kind |-> "json", val |-> v]

\* JSON.parse: a value, or a SyntaxError
ParseThrows(s) == s.kind # "json"
Parse(s) == s.val

----------------------------------------------------------------------------
(* Dates: toISOString() keeps the millisecond, new Date(iso).getTime()     *)
(* reads it back.                                                          *)

ToISOString(ms) == [sec |-> ms \div 1000, msec |-> ms % 1000]
GetTime(iso) == iso.sec * 1000 + iso.msec

----------------------------------------------------------------------------
(* Identifiers: a string is a pair <<prefix, digits>>                      *)

TempIdAt(ms) == <<TEMP_PREFIX, ms>>      \* 'temp_' + Date.now()
ServerId(n) == <<"id", n>>
StartsWithTemp(id) == id[1] = TEMP_PREFIX

----------------------------------------------------------------------------
(* Objects are functions from field names to values *)

Has(obj, field) == field \in DOMAIN obj
With(obj, field, value) == (field :> value) @@ obj

RECURSIVE SelectSeqBy(_, _)
SelectSeqBy(s, id) ==
    IF s = <<>> THEN <<>>
    ELSE IF Head(s)._tempId # id
         THEN <<Head(s)>> \o SelectSeqBy(Tail(s), id)
         ELSE SelectSeqBy(Tail(s), id)

----------------------------------------------------------------------------
(* JS values *)

Null == [kind |-> "null"]                \* null / undefined
NoValue == [kind |-> "none"]             \* nothing yet
Ret(v) == [kind |-> "value", val |-> v]  \* the value a promise resolved with

----------------------------------------------------------------------------
(* AppCache *)

\* (variant: the version of the stored snapshot is not looked at)
AppCache_get_anyVersion(store) ==
    IF store.kind = "absent" THEN Null
    ELSE IF ParseThrows(store) THEN Null
    ELSE Parse(store)

AppCache_get(store) ==
    IF store.kind = "absent" THEN Null
    ELSE IF ParseThrows(store) THEN Null
    ELSE LET data == Parse(store)
         IN IF Has(data, "version") /\ data.version = CACHE_VERSION
            THEN data
            ELSE Null

\* (variant: a version and a cachedAt that the argument brings are kept)
AppCache_set_keep(store, data, t, w) ==
    LET versioned == IF Has(data, "version") THEN data
                     ELSE With(data, "version", CACHE_VERSION)
        stamped == IF Has(versioned, "cachedAt") THEN versioned
                   ELSE With(versioned, "cachedAt", ToISOString(t))
    IN IF w THEN Stringify(stamped) ELSE store

\* w: localStorage.setItem succeeds (FALSE: it throws, the catch logs it)
AppCache_set(store, data, t, w) ==
    LET stamped == With(With(data, "version", CACHE_VERSION),
                        "cachedAt", ToISOString(t))
    IN IF w THEN Stringify(stamped) ELSE store

\* (variant: an age of exactly five minutes still counts as fresh)
AppCache_isValid_inclusive(store, t) ==
    LET cached == AppCache_get(store)
    IN IF cached = Null \/ ~Has(cached, "cachedAt") THEN FALSE
       ELSE (t - GetTime(cached.cachedAt)) <= fiveMinutes

AppCache_isValid(store, t) ==
    LET cached == AppCache_get(store)
    IN IF cached = Null \/ ~Has(cached, "cachedAt") THEN FALSE
       ELSE (t - GetTime(cached.cachedAt)) < fiveMinutes

----------------------------------------------------------------------------
(* OfflineQueue *)

EmptyQueue ==
    [new_entries |-> <<>>, deleted_entries |-> <<>>,
     new_products |-> <<>>, deleted_products |-> <<>>]

OfflineQueue_get(store) ==
    IF store.kind = "absent" THEN EmptyQueue
    ELSE IF ParseThrows(store) THEN EmptyQueue
    ELSE Parse(store)

\* w: localStorage.setItem succeeds (FALSE: it throws QuotaExceededError,
\* which OfflineQueue.set does not catch)
OfflineQueue_set(store, queue, w) ==
    [store |-> IF w THEN Stringify(queue) ELSE store, threw |-> ~w]

\* (variant: the entry is put at the head of the list)
OfflineQueue_addEntry_unshift(store, entry, t, w) ==
    LET queue == OfflineQueue_get(store)
        stamped == With(entry, "_tempId", TempIdAt(t))
        pushed == [queue EXCEPT !.new_entries = <<stamped>> \o @]
        written == OfflineQueue_set(store, pushed, w)
    IN [store |-> written.store, threw |-> written.threw,
        entry |-> stamped, ret |-> stamped._tempId]

\* entry is the caller's object: the _tempId is assigned on it
OfflineQueue_addEntry(store, entry, t, w) ==
    LET queue == OfflineQueue_get(store)
        stamped == With(entry, "_tempId", TempIdAt(t))
        pushed == [queue EXCEPT !.new_entries = Append(@, stamped)]
        written == OfflineQueue_set(store, pushed, w)
    IN [store |-> written.store, threw |-> written.threw,
        entry |-> stamped, ret |-> stamped._tempId]

\* (variant: the deletion is written into a fresh queue, not the stored one)
OfflineQueue_deleteEntry_fresh(store, entryId, w) ==
    LET queue == EmptyQueue
        changed ==
            IF StartsWithTemp(entryId)
            THEN [queue EXCEPT !.new_entries = SelectSeqBy(@, entryId)]
            ELSE [queue EXCEPT !.deleted_entries = Append(@, entryId)]
    IN OfflineQueue_set(store, changed, w)

\* (variant: an id that is already in deleted_entries is not added again)
OfflineQueue_deleteEntry_once(store, entryId, w) ==
    LET queue == OfflineQueue_get(store)
        listed == \E k \in DOMAIN queue.deleted_entries :
                     queue.deleted_entries[k] = entryId
        changed ==
            IF StartsWithTemp(entryId)
            THEN [queue EXCEPT !.new_entries = SelectSeqBy(@, entryId)]
            ELSE IF listed THEN queue
            ELSE [queue EXCEPT !.deleted_entries = Append(@, entryId)]
    IN OfflineQueue_set(store, changed, w)

OfflineQueue_deleteEntry(store, entryId, w) ==
    LET queue == OfflineQueue_get(store)
        changed ==
            IF StartsWithTemp(entryId)
            THEN [queue EXCEPT !.new_entries = SelectSeqBy(@, entryId)]
            ELSE [queue EXCEPT !.deleted_entries = Append(@, entryId)]
    IN OfflineQueue_set(store, changed, w)

\* (variant: the product is put in the list of entries)
OfflineQueue_addProduct_asEntry(store, product, t, w) ==
    LET queue == OfflineQueue_get(store)
        stamped == With(product, "_tempId", TempIdAt(t))
        pushed == [queue EXCEPT !.new_entries = Append(@, stamped)]
        written == OfflineQueue_set(store, pushed, w)
    IN [store |-> written.store, threw |-> written.threw,
        entry |-> stamped, ret |-> stamped._tempId]

OfflineQueue_addProduct(store, product, t, w) ==
    LET queue == OfflineQueue_get(store)
        stamped == With(product, "_tempId", TempIdAt(t))
        pushed == [queue EXCEPT !.new_products = Append(@, stamped)]
        written == OfflineQueue_set(store, pushed, w)
    IN [store |-> written.store, threw |-> written.threw,
        entry |-> stamped, ret |-> stamped._tempId]

OfflineQueue_clear(store) == Absent      \* removeItem

\* (variant: only the two lists of created items are looked at)
OfflineQueue_hasChanges_created(store) ==
    LET queue == OfflineQueue_get(store)
    IN \/ Len(queue.new_entries) > 0
       \/ Len(queue.new_products) > 0

OfflineQueue_hasChanges(store) ==
    LET queue == OfflineQueue_get(store)
    IN \/ Len(queue.new_entries) > 0
       \/ Len(queue.deleted_entries) > 0
       \/ Len(queue.new_products) > 0
       \/ Len(queue.deleted_products) > 0

----------------------------------------------------------------------------
(* The remote service and what the UI passes in *)

EntryInputs == {[product |-> "bread", weight |-> 150]}
ProductInputs == {[name |-> "kefir"]}
PulledData == {[rev |-> 1]}              \* ServerState of GET /api/sync
KnownServerIds == {ServerId(0)}          \* rows rendered from the server

\* the id the service gives to what call number n creates
IssuedId(n) == ServerId(n)

\* How a request ends: fetch rejects, a non-2xx status, a 2xx status with a
\* well-formed body, a 2xx status whose body is not JSON, and (GET /api/sync)
\* a 2xx status with a body { success: false }
StatusOutcomes == {"neterr", "non2xx", "2xx"}
BodyOutcomes == StatusOutcomes \cup {"2xx_badjson"}
PullOutcomes == BodyOutcomes \cup {"2xx_nosuccess"}

ResponseOk(r) == r \in {"2xx", "2xx_badjson", "2xx_nosuccess"}
JsonThrows(r) == r = "2xx_badjson"

----------------------------------------------------------------------------
(* Calls *)

\* n: the call's number in call order
\* alone: no other call has run a step since this one was made
NewCall(n, op, arg) ==
    [n |-> n, op |-> op, arg |-> arg, pc |-> "fetch", resp |-> "none",
     body |-> NoValue, ret |-> NoValue, alone |-> TRUE]

Finished(c) == c.pc \in {"done", "thrown"}
Resolve(c, v) == [c EXCEPT !.pc = "done", !.ret = Ret(v)]
Reject(c) == [c EXCEPT !.pc = "thrown"]

Awaiting(i, op, pc) ==
    /\ i \in 1..Len(calls)
    /\ calls[i].op = op
    /\ calls[i].pc = pc

RemoveAt(s, i) == SubSeq(s, 1, i - 1) \o SubSeq(s, i + 1, Len(s))

\* another call ran meanwhile
Disturb(s) == [k \in DOMAIN s |-> [s[k] EXCEPT !.alone = FALSE]]

\* call i goes on as c: still suspended, or settled
Advance(i, c) ==
    IF Finished(c)
    THEN calls' = Disturb(RemoveAt(calls, i)) /\ last' = c
    ELSE calls' = [Disturb(calls) EXCEPT ![i] = c] /\ UNCHANGED last

\* a new call c: suspended on its first await, or settled at once
Begin(c) ==
    LET made == [c EXCEPT !.alone = (calls = <<>>)]
    IN /\ started' = started + 1
       /\ IF Finished(made)
          THEN last' = made /\ calls' = Disturb(calls)
          ELSE calls' = Append(Disturb(calls), made) /\ UNCHANGED last

----------------------------------------------------------------------------
(* Initial states: what an earlier session may have left in localStorage *)

InitSnapshots ==
    {[success |-> TRUE, data |-> [rev |-> 0], version |-> CACHE_VERSION,
      cachedAt |-> ToISOString(t)] : t \in {0, 1}}
    \cup {[success |-> TRUE, data |-> [rev |-> 0], version |-> OLD_VERSION,
           cachedAt |-> ToISOString(fiveMinutes)]}
    \cup {[success |-> TRUE, data |-> [rev |-> 0], version |-> CACHE_VERSION]}

InitQueues ==
    {[EmptyQueue EXCEPT
        !.new_entries = <<[product |-> "apple", _tempId |-> TempIdAt(0)]>>]}

\* every cache with no queue, and every queue with no cache or a fresh one
InitStores ==
    LET caches == {Absent, Corrupt} \cup {Stringify(s) : s \in InitSnapshots}
        queues == {Absent, Corrupt} \cup {Stringify(q) : q \in InitQueues}
        fresh == [success |-> TRUE, data |-> [rev |-> 0],
                  version |-> CACHE_VERSION, cachedAt |-> ToISOString(1)]
    IN (caches \X {Absent}) \cup ({Absent, Stringify(fresh)} \X queues)

Init ==
    /\ now = fiveMinutes
    /\ ticks = 0
    /\ \E st \in InitStores : cacheStore = st[1] /\ queueStore = st[2]
    /\ calls = <<>>
    /\ started = 0
    /\ last = NewCall(0, "none", NoValue)
    /\ server = [pushed |-> {}]
    /\ page = [loaded |-> FALSE]

----------------------------------------------------------------------------
(* Time *)

Tick ==
    /\ ticks < MaxTicks
    /\ now' = now + 1
    /\ ticks' = ticks + 1
    /\ UNCHANGED <<cacheStore, queueStore, calls, started, last, server, page>>

\* the UI can make another call
CanCall == page.loaded /\ started < MaxCalls

----------------------------------------------------------------------------
(* API.syncAll *)

\* (variant: a stale snapshot is not served)
API_syncAll_catch_freshOnly(store) ==
    LET cached == AppCache_get(store)
    IN IF AppCache_isValid(store, now) THEN cached.data ELSE Null

\* the catch block: the cached data, whatever its age
API_syncAll_catch(store) ==
    LET cached == AppCache_get(store)
    IN IF cached # Null THEN cached.data ELSE Null

PullBody(r, d) ==
    IF r = "2xx" THEN [success |-> TRUE, data |-> d]
    ELSE IF r = "2xx_nosuccess" THEN [success |-> FALSE, error |-> "failed"]
    ELSE NoValue

SyncAllStart ==
    /\ CanCall
    /\ Begin(NewCall(started + 1, "syncAll", NoValue))
    /\ UNCHANGED <<now, ticks, cacheStore, queueStore, server, page>>

\* await fetch('/api/sync') settles
SyncAllFetched(i, r, d) ==
    /\ Awaiting(i, "syncAll", "fetch")
    /\ LET c == [calls[i] EXCEPT !.resp = r]
       IN IF ResponseOk(r)
          THEN Advance(i, [c EXCEPT !.pc = "json", !.body = PullBody(r, d)])
          ELSE Advance(i, Resolve(c, API_syncAll_catch(cacheStore)))
    /\ UNCHANGED <<now, ticks, cacheStore, queueStore, started, server, page>>

\* await response.json() settles
SyncAllParsed(i, w) ==
    /\ Awaiting(i, "syncAll", "json")
    /\ LET c == calls[i]
           result == c.body
       IN IF ~JsonThrows(c.resp) /\ result.success
          THEN /\ cacheStore' = AppCache_set(cacheStore, result, now, w)
               /\ Advance(i, Resolve(c, result.data))
          ELSE /\ Advance(i, Resolve(c, API_syncAll_catch(cacheStore)))
               /\ UNCHANGED cacheStore
    /\ UNCHANGED <<now, ticks, queueStore, started, server, page>>

----------------------------------------------------------------------------
(* API.pushChanges *)

\* the items of a queue, each with the list it is in
Mutations(queue) ==
    {<<"new_entries", queue.new_entries[k]>> : k \in DOMAIN queue.new_entries}
    \cup {<<"deleted_entries", queue.deleted_entries[k]>> :
            k \in DOMAIN queue.deleted_entries}
    \cup {<<"new_products", queue.new_products[k]>> :
            k \in DOMAIN queue.new_products}
    \cup {<<"deleted_products", queue.deleted_products[k]>> :
            k \in DOMAIN queue.deleted_products}

\* (variant: no early return, the request is made with whatever is queued)
API_pushChanges_begin_always(n, store) ==
    NewCall(n, "pushChanges", OfflineQueue_get(store))

\* up to the first await: the early return, or the request with the queue
API_pushChanges_begin(n, store) ==
    IF ~OfflineQueue_hasChanges(store)
    THEN Resolve(NewCall(n, "pushChanges", NoValue), TRUE)
    ELSE NewCall(n, "pushChanges", OfflineQueue_get(store))

\* (variant: the status of the response is not looked at)
API_pushChanges_resume_anyStatus(store, r) ==
    IF r = "neterr" THEN [store |-> store, ret |-> FALSE]
    ELSE [store |-> OfflineQueue_clear(store), ret |-> TRUE]

\* after the await: clear on response.ok, else nothing
API_pushChanges_resume(store, r) ==
    IF r = "neterr" THEN [store |-> store, ret |-> FALSE]
    ELSE IF ResponseOk(r) THEN [store |-> OfflineQueue_clear(store), ret |-> TRUE]
    ELSE [store |-> store, ret |-> FALSE]

PushChangesStart ==
    /\ CanCall
    /\ Begin(API_pushChanges_begin(started + 1, queueStore))
    /\ UNCHANGED <<now, ticks, cacheStore, queueStore, server, page>>

\* (variant: an accepted flush also drops the cached snapshot)
PushChangesFetched_dropsCache(i, r) ==
    /\ Awaiting(i, "pushChanges", "fetch")
    /\ LET c == [calls[i] EXCEPT !.resp = r]
           out == API_pushChanges_resume(queueStore, r)
       IN /\ queueStore' = out.store
          /\ Advance(i, Resolve(c, out.ret))
          /\ cacheStore' = IF ResponseOk(r) THEN Absent ELSE cacheStore
          /\ server' = IF ResponseOk(r)
                       THEN [server EXCEPT !.pushed = @ \cup Mutations(c.arg)]
                       ELSE server
    /\ UNCHANGED <<now, ticks, started, page>>

PushChangesFetched(i, r) ==
    /\ Awaiting(i, "pushChanges", "fetch")
    /\ LET c == [calls[i] EXCEPT !.resp = r]
           out == API_pushChanges_resume(queueStore, r)
       IN /\ queueStore' = out.store
          /\ Advance(i, Resolve(c, out.ret))
          /\ server' = IF ResponseOk(r)
                       THEN [server EXCEPT !.pushed = @ \cup Mutations(c.arg)]
                       ELSE server
    /\ UNCHANGED <<now, ticks, cacheStore, started, page>>

----------------------------------------------------------------------------
(* API.addEntry *)

\* (variant: only a rejected fetch reaches the catch block)
API_addEntry_fetchThrows_netOnly(r) == r = "neterr"

\* (variant: the catch block runs whatever the answer)
API_addEntry_fetchThrows_always(r) == TRUE

\* does control reach the catch block once fetch has settled with r
API_addEntry_fetchThrows(r) == ~ResponseOk(r)

\* the catch block: enqueue, answer with the provisional object
API_addEntry_catch(c, store, t, w) ==
    LET q == OfflineQueue_addEntry(store, c.arg, t, w)
        mutated == [c EXCEPT !.arg = q.entry]
    IN [store |-> q.store,
        call |-> IF q.threw
                 THEN Reject(mutated)
                 ELSE Resolve(mutated,
                              With(With(q.entry, "id", q.ret), "_offline", TRUE))]

\* the value of `return result.entry`
API_addEntry_return(c) == c.body.entry

AddEntryStart(e) ==
    /\ CanCall
    /\ Begin(NewCall(started + 1, "addEntry", e))
    /\ UNCHANGED <<now, ticks, cacheStore, queueStore, server, page>>

AddEntryFetched(i, r, w) ==
    /\ Awaiting(i, "addEntry", "fetch")
    /\ LET c == [calls[i] EXCEPT !.resp = r]
       IN IF API_addEntry_fetchThrows(r)
          THEN LET out == API_addEntry_catch(c, queueStore, now, w)
               IN /\ queueStore' = out.store
                  /\ Advance(i, out.call)
                  /\ UNCHANGED server
          ELSE LET created == With(c.arg, "id", IssuedId(c.n))
               IN /\ UNCHANGED server
                  /\ Advance(i, [c EXCEPT
                                   !.pc = "json",
                                   !.body = IF JsonThrows(r) THEN NoValue
                                            ELSE [entry |-> created]])
                  /\ UNCHANGED queueStore
    /\ UNCHANGED <<now, ticks, cacheStore, started, page>>

AddEntryParsed(i, w) ==
    /\ Awaiting(i, "addEntry", "json")
    /\ LET c == calls[i]
       IN IF JsonThrows(c.resp)
          THEN LET out == API_addEntry_catch(c, queueStore, now, w)
               IN /\ queueStore' = out.store
                  /\ Advance(i, out.call)
          ELSE /\ Advance(i, Resolve(c, API_addEntry_return(c)))
               /\ UNCHANGED queueStore
    /\ UNCHANGED <<now, ticks, cacheStore, started, server, page>>

----------------------------------------------------------------------------
(* API.deleteEntry *)

\* after the await: response.ok, or the catch block when fetch rejected
API_deleteEntry_resume(store, entryId, r, w) ==
    IF r = "neterr"
    THEN LET q == OfflineQueue_deleteEntry(store, entryId, w)
         IN [store |-> q.store, threw |-> q.threw, ret |-> TRUE]
    ELSE [store |-> store, threw |-> FALSE, ret |-> ResponseOk(r)]

\* the ids the UI can ask to delete: the rows it shows
DeletableIds ==
    LET queued == OfflineQueue_get(queueStore).new_entries
    IN KnownServerIds \cup {queued[k]._tempId : k \in DOMAIN queued}

DeleteEntryStart(id) ==
    /\ CanCall
    /\ Begin(NewCall(started + 1, "deleteEntry", id))
    /\ UNCHANGED <<now, ticks, cacheStore, queueStore, server, page>>

DeleteEntryFetched(i, r, w) ==
    /\ Awaiting(i, "deleteEntry", "fetch")
    /\ LET c == [calls[i] EXCEPT !.resp = r]
           out == API_deleteEntry_resume(queueStore, c.arg, r, w)
       IN /\ queueStore' = out.store
          /\ Advance(i, IF out.threw THEN Reject(c) ELSE Resolve(c, out.ret))
    /\ UNCHANGED <<now, ticks, cacheStore, started, server, page>>

----------------------------------------------------------------------------
(* API.addProduct *)

API_addProduct_catch(c, store, t, w) ==
    LET q == OfflineQueue_addProduct(store, c.arg, t, w)
        mutated == [c EXCEPT !.arg = q.entry]
    IN [store |-> q.store,
        call |-> IF q.threw
                 THEN Reject(mutated)
                 ELSE Resolve(mutated,
                              With(With(q.entry, "id", q.ret), "_offline", TRUE))]

AddProductStart(p) ==
    /\ CanCall
    /\ Begin(NewCall(started + 1, "addProduct", p))
    /\ UNCHANGED <<now, ticks, cacheStore, queueStore, server, page>>

AddProductFetched(i, r, w) ==
    /\ Awaiting(i, "addProduct", "fetch")
    /\ LET c == [calls[i] EXCEPT !.resp = r]
       IN IF ~ResponseOk(r)
          THEN LET out == API_addProduct_catch(c, queueStore, now, w)
               IN /\ queueStore' = out.store
                  /\ Advance(i, out.call)
                  /\ UNCHANGED server
          ELSE LET created == With(c.arg, "id", IssuedId(c.n))
               IN /\ UNCHANGED server
                  /\ Advance(i, [c EXCEPT
                                   !.pc = "json",
                                   !.body = IF JsonThrows(r) THEN NoValue
                                            ELSE [product |-> created]])
                  /\ UNCHANGED queueStore
    /\ UNCHANGED <<now, ticks, cacheStore, started, page>>

AddProductParsed(i, w) ==
    /\ Awaiting(i, "addProduct", "json")
    /\ LET c == calls[i]
       IN IF JsonThrows(c.resp)
          THEN LET out == API_addProduct_catch(c, queueStore, now, w)
               IN /\ queueStore' = out.store
                  /\ Advance(i, out.call)
          ELSE /\ Advance(i, Resolve(c, c.body.product))
               /\ UNCHANGED queueStore
    /\ UNCHANGED <<now, ticks, cacheStore, started, server, page>>

----------------------------------------------------------------------------
(* The DOMContentLoaded handler: pull when the cache is not valid, flush   *)
(* when something is queued and the browser reports connectivity.          *)

\* (variant: navigator.onLine is not looked at)
PageLoad_anyConnectivity(online) ==
    /\ ~page.loaded
    /\ LET valid == AppCache_isValid(cacheStore, now)
           has == OfflineQueue_hasChanges(queueStore)
           pull == IF ~valid THEN <<NewCall(1, "syncAll", NoValue)>> ELSE <<>>
           push == IF has
                   THEN <<API_pushChanges_begin(Len(pull) + 1, queueStore)>>
                   ELSE <<>>
       IN /\ calls' = IF Len(pull) + Len(push) = 2
                      THEN Disturb(pull \o push)
                      ELSE pull \o push
          /\ started' = Len(pull) + Len(push)
          /\ page' = [loaded |-> TRUE, valid |-> valid, has |-> has,
                      online |-> online, at |-> now]
    /\ UNCHANGED <<now, ticks, cacheStore, queueStore, last, server>>

PageLoad(online) ==
    /\ ~page.loaded
    /\ LET valid == AppCache_isValid(cacheStore, now)
           has == OfflineQueue_hasChanges(queueStore)
           pull == IF ~valid THEN <<NewCall(1, "syncAll", NoValue)>> ELSE <<>>
           push == IF has /\ online
                   THEN <<API_pushChanges_begin(Len(pull) + 1, queueStore)>>
                   ELSE <<>>
       IN /\ calls' = IF Len(pull) + Len(push) = 2
                      THEN Disturb(pull \o push)
                      ELSE pull \o push
          /\ started' = Len(pull) + Len(push)
          /\ page' = [loaded |-> TRUE, valid |-> valid, has |-> has,
                      online |-> online, at |-> now]
    /\ UNCHANGED <<now, ticks, cacheStore, queueStore, last, server>>

----------------------------------------------------------------------------
(* W: the outcomes of localStorage.setItem that can happen, TRUE = stored  *)

NextW(W) ==
    \/ Tick
    \/ \E online \in BOOLEAN : PageLoad(online)
    \/ SyncAllStart
    \/ \E i \in 1..Len(calls), r \in PullOutcomes, d \in PulledData :
          SyncAllFetched(i, r, d)
    \/ \E i \in 1..Len(calls), w \in W : SyncAllParsed(i, w)
    \/ PushChangesStart
    \/ \E i \in 1..Len(calls), r \in StatusOutcomes : PushChangesFetched(i, r)
    \/ \E e \in EntryInputs : AddEntryStart(e)
    \/ \E i \in 1..Len(calls), r \in BodyOutcomes, w \in W : AddEntryFetched(i, r, w)
    \/ \E i \in 1..Len(calls), w \in W : AddEntryParsed(i, w)
    \/ \E id \in DeletableIds : DeleteEntryStart(id)
    \/ \E i \in 1..Len(calls), r \in StatusOutcomes, w \in W :
          DeleteEntryFetched(i, r, w)
    \/ \E p \in ProductInputs : AddProductStart(p)
    \/ \E i \in 1..Len(calls), r \in BodyOutcomes, w \in W :
          AddProductFetched(i, r, w)
    \/ \E i \in 1..Len(calls), w \in W : AddProductParsed(i, w)

\* localStorage always has room
Next == NextW({TRUE})

\* localStorage.setItem may throw QuotaExceededError
NextQuota == NextW(BOOLEAN)

Spec == Init /\ [][Next]_vars

SpecQuota == Init /\ [][NextQuota]_vars

----------------------------------------------------------------------------
(* Vocabulary of the properties *)

Queue == OfflineQueue_get(queueStore)
QueueAfter == OfflineQueue_get(queueStore')

\* this step settles a call of operation op
Settles(op) == last'.n # last.n /\ last'.op = op

\* the gateway failed: no connection, a non-2xx status, a body that is not JSON
GatewayFailed(r) == r \in {"neterr", "non2xx", "2xx_badjson"}

Returned(c, v) == c.pc = "done" /\ c.ret = Ret(v)

\* id is the _tempId of an item at some position of list s
HasTempId(s, id) == \E k \in DOMAIN s : s[k]._tempId = id

----------------------------------------------------------------------------
(* C1  No queued mutation is lost: an item that is in the pending queue is, *)
(* after every step, still in the queue or part of a payload the gateway    *)
(* has acknowledged (an entry that deleteEntry takes back out by its temp   *)
(* id is not counted as lost).                                              *)

NoQueuedMutationLost ==
    [][\A m \in Mutations(Queue) :
          \/ m \in Mutations(QueueAfter)
          \/ m \in server'.pushed
          \/ /\ Settles("deleteEntry")
             /\ m[1] = "new_entries"
             /\ m[2]._tempId = last'.arg]_vars

----------------------------------------------------------------------------
\* this step settles a pushChanges call that sent a request
PushSettles == Settles("pushChanges") /\ last'.resp # "none"

----------------------------------------------------------------------------
(* C2  pushChanges on a non-empty queue: a 2xx answer leaves all four lists *)
(* empty and returns true; any other answer changes nothing in the stored   *)
(* queue and returns false, and when no other call ran meanwhile the lists  *)
(* are those the call read when it was made.                                *)

PushChangesAllOrNothing ==
    [][PushSettles =>
          IF ResponseOk(last'.resp)
          THEN /\ QueueAfter = EmptyQueue
               /\ Returned(last', TRUE)
          ELSE /\ queueStore' = queueStore
               /\ Returned(last', FALSE)
               /\ (last'.alone => QueueAfter = last'.arg)]_vars

\* a flush of an entry and a deletion was acknowledged, nothing else ran
PushChangesFlushedAlone ==
    /\ last.op = "pushChanges"
    /\ last.alone
    /\ last.resp = "2xx"
    /\ Returned(last, TRUE)
    /\ Len(last.arg.new_entries) > 0
    /\ Len(last.arg.deleted_entries) > 0
    /\ Queue = EmptyQueue

----------------------------------------------------------------------------
(* C3  deleteEntry returns true whatever the gateway answers, and when the  *)
(* gateway fails (no connection, or a non-2xx status) the deletion is in    *)
(* the queue when it returns: a non-temp id appended to deleted_entries, a  *)
(* temp id removed from new_entries.                                        *)

DeleteEntryAlwaysTrueAndQueued ==
    [][Settles("deleteEntry") =>
          /\ Returned(last', TRUE)
          /\ (~ResponseOk(last'.resp) =>
                IF StartsWithTemp(last'.arg)
                THEN /\ ~HasTempId(QueueAfter.new_entries, last'.arg)
                     /\ QueueAfter.deleted_entries = Queue.deleted_entries
                ELSE QueueAfter.deleted_entries =
                        Append(Queue.deleted_entries, last'.arg))]_vars

----------------------------------------------------------------------------
(* C4  With one queued entry, of temp id t, and nothing else running,       *)
(* deleteEntry(t) leaves new_entries and deleted_entries empty and returns  *)
(* true, whatever the gateway answers.                                      *)

DeleteQueuedEntryEmptiesQueue ==
    [][( /\ Settles("deleteEntry")
         /\ last'.alone
         /\ Len(Queue.new_entries) = 1
         /\ Queue.new_entries[1]._tempId = last'.arg
         /\ Queue.deleted_entries = <<>> )
       => /\ QueueAfter.new_entries = <<>>
          /\ QueueAfter.deleted_entries = <<>>
          /\ Returned(last', TRUE)]_vars

----------------------------------------------------------------------------
(* C5  addEntry whose gateway call fails (no connection, non-2xx, a body    *)
(* that is not JSON) returns an object with _offline = true and id =        *)
(* 'temp_' + the time of the enqueue; new_entries has grown by exactly one  *)
(* item, at its end, whose _tempId is the returned id; the other three      *)
(* lists are unchanged.                                                     *)

AddEntryOfflineResult ==
    [][(Settles("addEntry") /\ GatewayFailed(last'.resp)) =>
          /\ last'.pc = "done"
          /\ LET result == last'.ret.val
                 n == Len(Queue.new_entries)
             IN /\ Has(result, "_offline") /\ result._offline = TRUE
                /\ Has(result, "id") /\ result.id = <<"temp_", now>>
                /\ Len(QueueAfter.new_entries) = n + 1
                /\ SubSeq(QueueAfter.new_entries, 1, n) = Queue.new_entries
                /\ QueueAfter.new_entries[n + 1]._tempId = result.id
                /\ QueueAfter.deleted_entries = Queue.deleted_entries
                /\ QueueAfter.new_products = Queue.new_products
                /\ QueueAfter.deleted_products = Queue.deleted_products]_vars

\* a 2xx answer that is not JSON has put the entry behind an older one
AddEntryQueuedAfterBadBody ==
    /\ last.op = "addEntry"
    /\ last.resp = "2xx_badjson"
    /\ last.pc = "done"
    /\ last.ret.val._offline
    /\ Len(Queue.new_entries) = 2
    /\ Queue.new_entries[2]._tempId = last.ret.val.id

----------------------------------------------------------------------------
\* this step is one of a pending addEntry call that got a well-formed 2xx
StepOfConfirmedAddEntry ==
    \/ Settles("addEntry") /\ last'.resp = "2xx"
    \/ \E i \in DOMAIN calls :
          /\ calls[i].op = "addEntry"
          /\ calls[i].pc = "fetch"
          /\ i \in DOMAIN calls'
          /\ calls'[i].n = calls[i].n
          /\ calls'[i].pc = "json"
          /\ calls'[i].resp = "2xx"

----------------------------------------------------------------------------
(* C6  addEntry whose gateway call succeeds returns the entry the server    *)
(* issued (its id, no _tempId, no _offline) and no step of the call         *)
(* changes the stored queue.                                                *)

AddEntryConfirmedNotQueued ==
    [][StepOfConfirmedAddEntry =>
          /\ queueStore' = queueStore
          /\ (Settles("addEntry") =>
                /\ last'.pc = "done"
                /\ LET result == last'.ret.val
                   IN /\ Has(result, "id") /\ result.id = IssuedId(last'.n)
                      /\ ~Has(result, "_tempId")
                      /\ ~Has(result, "_offline")
                      /\ result = last'.body.entry)]_vars

\* a confirmed entry came back while another entry was waiting in the queue
AddEntryConfirmedBesideQueue ==
    /\ last.op = "addEntry"
    /\ last.resp = "2xx"
    /\ last.pc = "done"
    /\ last.ret.val.id = IssuedId(last.n)
    /\ Len(Queue.new_entries) = 1

----------------------------------------------------------------------------
\* the stored string parses to a snapshot of the current schema version
StoresCurrentSnapshot(store) ==
    /\ store.kind = "json"
    /\ Has(store.val, "version")
    /\ store.val.version = "1.0"

----------------------------------------------------------------------------
(* C7  syncAll: a pull that succeeds (2xx, success = true) stores the       *)
(* pulled result as the snapshot and returns its data; a pull that fails    *)
(* (no connection, non-2xx, success = false, a body that is not JSON)       *)
(* leaves the snapshot alone and returns the data of the stored snapshot    *)
(* when one of the current version is stored, however old, and null only    *)
(* when none is.                                                            *)

SyncAllPullOrFallback ==
    [][Settles("syncAll") =>
          /\ last'.pc = "done"
          /\ IF last'.resp = "2xx"
             THEN /\ last'.ret.val = last'.body.data
                  /\ StoresCurrentSnapshot(cacheStore')
                  /\ \A f \in DOMAIN last'.body :
                        cacheStore'.val[f] = last'.body[f]
             ELSE /\ cacheStore' = cacheStore
                  /\ IF StoresCurrentSnapshot(cacheStore)
                     THEN last'.ret.val = cacheStore.val.data
                     ELSE last'.ret.val = Null]_vars

\* a failed pull has answered with data that is more than five minutes old
SyncAllServedStaleData ==
    /\ last.op = "syncAll"
    /\ last.resp \in {"neterr", "non2xx", "2xx_nosuccess"}
    /\ StoresCurrentSnapshot(cacheStore)
    /\ Has(cacheStore.val, "cachedAt")
    /\ now - GetTime(cacheStore.val.cachedAt) > 300000
    /\ ~AppCache_isValid(cacheStore, now)
    /\ Returned(last, [rev |-> 0])

----------------------------------------------------------------------------
(* C8  isValid is true exactly when a snapshot is stored, its version is    *)
(* the current one, it has a cachedAt, and now - cachedAt < 300000 ms.      *)
(* (isValid runs in the DOMContentLoaded handler; page.valid is its value.) *)

IsValidFreshnessRule ==
    [][(~page.loaded /\ page'.loaded) =>
          (page'.valid <=>
              /\ StoresCurrentSnapshot(cacheStore)
              /\ Has(cacheStore.val, "cachedAt")
              /\ now - (cacheStore.val.cachedAt.sec * 1000
                        + cacheStore.val.cachedAt.msec) < 300000)]_vars

\* a snapshot of the current version, exactly five minutes old, was refused
IsValidRefusedAtFiveMinutes ==
    /\ page.loaded
    /\ ~page.valid
    /\ StoresCurrentSnapshot(cacheStore)
    /\ Has(cacheStore.val, "cachedAt")
    /\ page.at - GetTime(cacheStore.val.cachedAt) = 300000

----------------------------------------------------------------------------
(* C9  Every public operation settles with a value: no call ends as a       *)
(* rejected promise, whatever the gateway and localStorage do.              *)

NoCallRejects ==
    /\ last.pc # "thrown"
    /\ \A i \in DOMAIN calls : calls[i].pc # "thrown"

----------------------------------------------------------------------------
\* the _tempId of every queued entry and product, by position
QueuedTempIds(queue) ==
    [k \in 1..(Len(queue.new_entries) + Len(queue.new_products)) |->
        IF k <= Len(queue.new_entries)
        THEN queue.new_entries[k]._tempId
        ELSE queue.new_products[k - Len(queue.new_entries)]._tempId]

----------------------------------------------------------------------------
(* C10  Temp ids are unique: no two queued items, entries or products,      *)
(* carry the same _tempId.                                                  *)

TempIdsUnique ==
    LET ids == QueuedTempIds(Queue)
    IN \A j, k \in DOMAIN ids : j # k => ids[j] # ids[k]

----------------------------------------------------------------------------
\* this step is the fallback of a call of op: its catch block has run
FellBack(op) ==
    /\ Settles(op)
    /\ last'.pc = "done"
    /\ IF op = "deleteEntry" THEN last'.resp = "neterr"
       ELSE GatewayFailed(last'.resp)

\* list s without the items whose _tempId is id, in the order of s
WithoutTempId(s, id) ==
    LET Keep(e) == e._tempId # id
    IN SelectSeq(s, Keep)

----------------------------------------------------------------------------
(* C11  Mutations that fall back to the queue do not overwrite each other:  *)
(* the fallback of addEntry, addProduct or deleteEntry is one step, which   *)
(* reads the stored queue and writes it back with its own mutation applied  *)
(* and every other item as it was, whatever other calls are pending; and    *)
(* the stored queue changes in no step other than one that settles a call.  *)

ReentrantMutationsKept ==
    [][/\ FellBack("addEntry") =>
             /\ QueueAfter =
                   [Queue EXCEPT !.new_entries = Append(@, last'.arg)]
             /\ last'.arg._tempId = last'.ret.val.id
       /\ FellBack("addProduct") =>
             /\ QueueAfter =
                   [Queue EXCEPT !.new_products = Append(@, last'.arg)]
             /\ last'.arg._tempId = last'.ret.val.id
       /\ FellBack("deleteEntry") =>
             QueueAfter =
                IF last'.arg[1] = "temp_"
                THEN [Queue EXCEPT
                        !.new_entries = WithoutTempId(@, last'.arg)]
                ELSE [Queue EXCEPT
                        !.deleted_entries = Append(@, last'.arg)]
       /\ queueStore' # queueStore => last'.n # last.n]_vars

\* two calls overlapped, the second fell back first, and both the entry and
\* the deletion are queued behind the entry of the earlier session
ReentrantFallbacksBothQueued ==
    /\ started = 2
    /\ calls = <<>>
    /\ last.n = 1
    /\ ~last.alone
    /\ last.op = "deleteEntry"
    /\ last.resp = "neterr"
    /\ Queue.deleted_entries = <<last.arg>>
    /\ Len(Queue.new_entries) = 2
    /\ Queue.new_entries[2].product = "bread"

----------------------------------------------------------------------------
\* the list of the queue that the fallback of op appends to
ListOf(queue, op) ==
    IF op = "addEntry" THEN queue.new_entries ELSE queue.new_products

\* the call that settled before this step was a fallback of op too: its
\* item is the one most recently put in the queue
FollowsFallbackOf(op) ==
    /\ FellBack(op)
    /\ last.op = op
    /\ last.pc = "done"
    /\ GatewayFailed(last.resp)

----------------------------------------------------------------------------
(* C12  (as claimed) Queue order is call order: of two addEntry calls that  *)
(* both end up queued, the one called first is queued first, whichever      *)
(* gateway call fails first; the same for addProduct.                       *)

QueueOrderIsCallOrder ==
    [][\A op \in {"addEntry", "addProduct"} :
          FollowsFallbackOf(op) => last.n < last'.n]_vars

(* C12  (amended) Queue order is the order of the fallbacks: the item of a  *)
(* call that falls back is put at the end of its list, right behind the     *)
(* item of the call that fell back before it; that is call order when the   *)
(* later call was made with no other call pending.                          *)

QueueOrderIsFallbackOrder ==
    [][\A op \in {"addEntry", "addProduct"} :
          /\ FellBack(op) =>
                ListOf(QueueAfter, op) = Append(ListOf(Queue, op), last'.arg)
          /\ FollowsFallbackOf(op) =>
                LET s == ListOf(QueueAfter, op)
                IN /\ Len(s) >= 2
                   /\ s[Len(s) - 1] = last.arg
                   /\ s[Len(s)] = last'.arg
                   /\ (last'.alone => last.n < last'.n)]_vars

\* the entry of the first call is queued behind the entry of the second
QueuedOutOfCallOrder ==
    /\ started = 2
    /\ calls = <<>>
    /\ last.n = 1
    /\ last.op = "addEntry"
    /\ last.pc = "done"
    /\ GatewayFailed(last.resp)
    /\ Len(Queue.new_entries) >= 2
    /\ Queue.new_entries[Len(Queue.new_entries)] = last.arg
    /\ Queue.new_entries[Len(Queue.new_entries) - 1].product = "bread"

----------------------------------------------------------------------------
\* the calls made in this step
MadeCalls ==
    {c \in {last'} \cup {calls'[k] : k \in DOMAIN calls'} : c.n > started}

----------------------------------------------------------------------------
(* C13  pushChanges called when all four lists are empty returns true at    *)
(* once and issues no request: it is not left waiting for the gateway, and  *)
(* neither the stored queue nor what the service has received changes.      *)

PushOnEmptyQueueIsNoOp ==
    [][\A c \in MadeCalls :
          (c.op = "pushChanges" /\ Queue = EmptyQueue) =>
             /\ c = last'
             /\ Returned(c, TRUE)
             /\ c.resp = "none"
             /\ \A k \in DOMAIN calls' : calls'[k].n # c.n
             /\ queueStore' = queueStore
             /\ server' = server]_vars

\* a flush was asked for with nothing queued, and came back true
PushOnEmptyQueueReturnedTrue ==
    /\ last.op = "pushChanges"
    /\ last.n = started
    /\ last.resp = "none"
    /\ Returned(last, TRUE)
    /\ Queue = EmptyQueue
    /\ server.pushed = {}

----------------------------------------------------------------------------
\* the stored queue after OfflineQueue.addEntry(e) at time t, followed at
\* once by OfflineQueue.deleteEntry of the id that call returned
EnqueueThenDequeue(store, e, t) ==
    LET added == OfflineQueue_addEntry(store, e, t, TRUE)
    IN OfflineQueue_deleteEntry(added.store, added.ret, TRUE).store

----------------------------------------------------------------------------
(* C14  Round trip: enqueueEntry(e) followed at once by dequeueEntry of the *)
(* returned temp id restores all four lists to what they were before the    *)
(* enqueue, from every queue the program can have stored; from a queue      *)
(* with no pending changes it leaves new_entries empty and hasChanges()     *)
(* false.                                                                   *)

EnqueueDequeueRestoresQueue ==
    \A e \in EntryInputs :
        LET after == EnqueueThenDequeue(queueStore, e, now)
        IN /\ OfflineQueue_get(after) = Queue
           /\ Queue = EmptyQueue =>
                 /\ OfflineQueue_get(after).new_entries = <<>>
                 /\ ~OfflineQueue_hasChanges(after)

----------------------------------------------------------------------------
(* C15  dequeueEntry(id) with an id that is not a temp id puts id at the    *)
(* end of deleted_entries and leaves new_entries, new_products and          *)
(* deleted_products as they were, whatever is stored, also when id is in    *)
(* deleted_entries already.                                                 *)

DequeueServerIdAppendsOnly ==
    \A id \in KnownServerIds :
        LET after == OfflineQueue_get(
                        OfflineQueue_deleteEntry(queueStore, id, TRUE).store)
        IN /\ after.deleted_entries = Queue.deleted_entries \o <<id>>
           /\ after.new_entries = Queue.new_entries
           /\ after.new_products = Queue.new_products
           /\ after.deleted_products = Queue.deleted_products

\* the same server id was dequeued twice, beside a queued entry
ServerIdDequeuedTwice ==
    /\ last.op = "deleteEntry"
    /\ last.resp = "neterr"
    /\ last.arg \in KnownServerIds
    /\ Queue.deleted_entries = <<last.arg, last.arg>>
    /\ Len(Queue.new_entries) = 1

----------------------------------------------------------------------------
\* a queue is stored and one of its four lists has an item
SomethingStored(store) ==
    /\ store.kind = "json"
    /\ \E f \in {"new_entries", "deleted_entries",
                 "new_products", "deleted_products"} : store.val[f] # <<>>

----------------------------------------------------------------------------
(* C16  hasChanges() is true exactly when one of the four stored lists has  *)
(* an item, in every reachable state; it is false right after clear() and   *)
(* for as long as a successful pushChanges is the call that settled last.   *)

HasChangesIffSomethingQueued ==
    /\ OfflineQueue_hasChanges(queueStore) <=> SomethingStored(queueStore)
    /\ ~OfflineQueue_hasChanges(OfflineQueue_clear(queueStore))
    /\ (last.op = "pushChanges" /\ last.resp = "2xx") =>
          ~OfflineQueue_hasChanges(queueStore)

\* a flush of a queue that held one deletion and nothing else was accepted
DeletionOnlyQueueFlushed ==
    /\ last.op = "pushChanges"
    /\ last.resp = "2xx"
    /\ last.arg.new_entries = <<>>
    /\ last.arg.new_products = <<>>
    /\ Len(last.arg.deleted_entries) = 1
    /\ ~OfflineQueue_hasChanges(queueStore)

----------------------------------------------------------------------------
\* the argument that pending call number n was made with
InputOf(n) ==
    LET i == CHOOSE k \in DOMAIN calls : calls[k].n = n
    IN calls[i].arg

\* this step is one of a pending addProduct call that got a well-formed 2xx
StepOfConfirmedAddProduct ==
    \/ Settles("addProduct") /\ last'.resp = "2xx"
    \/ \E i \in DOMAIN calls :
          /\ calls[i].op = "addProduct"
          /\ calls[i].pc = "fetch"
          /\ i \in DOMAIN calls'
          /\ calls'[i].n = calls[i].n
          /\ calls'[i].pc = "json"
          /\ calls'[i].resp = "2xx"

----------------------------------------------------------------------------
(* C17  addProduct mirrors addEntry.  When the gateway succeeds it returns  *)
(* the product the server issued and no step of the call changes the        *)
(* stored queue.  When the gateway fails (no connection, non-2xx, a body    *)
(* that is not JSON) new_products grows by exactly one item, at its end,    *)
(* carrying the temp id; the other three lists are unchanged; and the       *)
(* result has every field of the input, id = the temp id and _offline =     *)
(* true.                                                                    *)

AddProductMirrorsAddEntry ==
    [][/\ StepOfConfirmedAddProduct =>
             /\ queueStore' = queueStore
             /\ (Settles("addProduct") =>
                   /\ last'.pc = "done"
                   /\ last'.ret.val = last'.body.product
                   /\ last'.ret.val.id = IssuedId(last'.n)
                   /\ ~Has(last'.ret.val, "_offline"))
       /\ (Settles("addProduct") /\ GatewayFailed(last'.resp)) =>
             /\ last'.pc = "done"
             /\ LET result == last'.ret.val
                    input == InputOf(last'.n)
                    n == Len(Queue.new_products)
                IN /\ \A f \in DOMAIN input : result[f] = input[f]
                   /\ Has(result, "_offline") /\ result._offline = TRUE
                   /\ Has(result, "id") /\ result.id = <<"temp_", now>>
                   /\ Len(QueueAfter.new_products) = n + 1
                   /\ SubSeq(QueueAfter.new_products, 1, n) = Queue.new_products
                   /\ QueueAfter.new_products[n + 1]._tempId = result.id
                   /\ QueueAfter.new_entries = Queue.new_entries
                   /\ QueueAfter.deleted_entries = Queue.deleted_entries
                   /\ QueueAfter.deleted_products = Queue.deleted_products]_vars

\* a product was queued on a non-2xx answer, beside the entry of an earlier
\* session
AddProductQueuedBesideEntry ==
    /\ last.op = "addProduct"
    /\ last.resp = "non2xx"
    /\ last.pc = "done"
    /\ last.ret.val._offline
    /\ last.ret.val.name = "kefir"
    /\ Len(Queue.new_products) = 1
    /\ Queue.new_products[1]._tempId = last.ret.val.id
    /\ Len(Queue.new_entries) = 1
    /\ Queue.new_entries[1].product = "apple"

----------------------------------------------------------------------------
\* the numbers of the calls of op that are pending after this step
PendingAfter(op) == {calls'[k].n : k \in {j \in DOMAIN calls' : calls'[j].op = op}}

----------------------------------------------------------------------------
(* C18  Startup reconciliation: the page load starts a pull (syncAll)       *)
(* exactly when isValid() is false, and a flush (pushChanges) exactly when  *)
(* the queue has changes and the browser reports connectivity; loaded       *)
(* offline or with an empty queue it sends no push request.  It starts      *)
(* nothing else and writes nothing.                                         *)

StartupReconciliation ==
    [][(~page.loaded /\ page'.loaded) =>
          /\ PendingAfter("syncAll") # {} <=> ~AppCache_isValid(cacheStore, now)
          /\ PendingAfter("pushChanges") # {} <=>
                (SomethingStored(queueStore) /\ page'.online)
          /\ Cardinality(PendingAfter("syncAll")) <= 1
          /\ Cardinality(PendingAfter("pushChanges")) <= 1
          /\ Len(calls') = Cardinality(PendingAfter("syncAll"))
                           + Cardinality(PendingAfter("pushChanges"))
          /\ \A k \in DOMAIN calls' :
                /\ calls'[k].pc = "fetch"
                /\ calls'[k].op = "pushChanges" => calls'[k].arg = Queue
          /\ last' = last
          /\ <<cacheStore', queueStore', server'>> =
                <<cacheStore, queueStore, server>>]_vars

\* loaded offline with a stale snapshot and a queued entry: the pull is
\* pending, no flush was started
LoadedOfflineWithQueue ==
    /\ page.loaded
    /\ ~page.online
    /\ ~page.valid
    /\ page.has
    /\ started = 1
    /\ Len(calls) = 1
    /\ calls[1].op = "syncAll"
    /\ calls[1].pc = "fetch"
    /\ Len(Queue.new_entries) = 1
    /\ last.op = "none"

----------------------------------------------------------------------------
(* Retrying the flush.  pushChanges does not retry; it is called again by   *)
(* the DOMContentLoaded handler of the next page load, or by the UI.  A     *)
(* reload ends the document: its calls and their results are gone, what is  *)
(* in localStorage stays.  The UI makes no new mutation while the flush is  *)
(* being retried.                                                           *)

\* queues an earlier session may have left: an entry, a deletion, a product
RetryQueues ==
    InitQueues \cup
    {[EmptyQueue EXCEPT
        !.new_entries = <<[product |-> "apple", _tempId |-> TempIdAt(0)]>>,
        !.deleted_entries = <<ServerId(0)>>,
        !.new_products = <<[name |-> "kefir", _tempId |-> TempIdAt(1)]>>]}

RetryStores ==
    LET fresh == [success |-> TRUE, data |-> [rev |-> 0],
                  version |-> CACHE_VERSION, cachedAt |-> ToISOString(1)]
    IN InitStores
       \cup ({Absent, Stringify(fresh)} \X {Stringify(q) : q \in RetryQueues})

InitRetry ==
    /\ now = fiveMinutes
    /\ ticks = 0
    /\ \E st \in RetryStores : cacheStore = st[1] /\ queueStore = st[2]
    /\ calls = <<>>
    /\ started = 0
    /\ last = NewCall(0, "none", NoValue)
    /\ server = [pushed |-> {}]
    /\ page = [loaded |-> FALSE]

\* the page is loaded again, with no request in flight
Reload ==
    /\ page.loaded
    /\ calls = <<>>
    /\ started' = 0
    /\ last' = NewCall(0, "none", NoValue)
    /\ page' = [loaded |-> FALSE]
    /\ UNCHANGED <<now, ticks, cacheStore, queueStore, calls, server>>

\* the gateway answers a pending flush
PushAnswered == \E i \in 1..Len(calls), r \in StatusOutcomes : PushChangesFetched(i, r)

\* the gateway accepts a pending flush
PushAccepted == \E i \in 1..Len(calls) : PushChangesFetched(i, "2xx")

PullAnswered ==
    \/ \E i \in 1..Len(calls), r \in PullOutcomes, d \in PulledData :
          SyncAllFetched(i, r, d)
    \/ \E i \in 1..Len(calls) : SyncAllParsed(i, TRUE)

NextRetry ==
    \/ Tick
    \/ \E online \in BOOLEAN : PageLoad(online)
    \/ Reload
    \/ PushChangesStart
    \/ PushAnswered
    \/ PullAnswered

\* every request is answered; the page is loaded again and again, and again
\* and again with connectivity; the gateway accepts a flush in the end
FairRetry ==
    /\ WF_vars(PushAnswered)
    /\ WF_vars(PullAnswered)
    /\ WF_vars(Reload)
    /\ SF_vars(PageLoad(TRUE))
    /\ SF_vars(PushAccepted)

SpecRetry == InitRetry /\ [][NextRetry]_vars /\ FairRetry

\* everything that can be queued when the retrying starts
RetryMutations == UNION {Mutations(q) : q \in RetryQueues}

----------------------------------------------------------------------------
(* C19  Eventual flush.  The stored queue changes only when a pushChanges   *)
(* is accepted, and then what was queued is part of the accepted payload.   *)
(* A pushChanges that fails leaves the queue as it is and starts no further *)
(* attempt.  When pushChanges is called again after each failure, the       *)
(* gateway accepts a flush in the end and nothing new is enqueued           *)
(* meanwhile, every queued mutation is eventually in an accepted payload    *)
(* with the queue empty.                                                    *)

EventualFlush ==
    /\ [][queueStore' # queueStore =>
             /\ PushSettles
             /\ last'.resp = "2xx"
             /\ QueueAfter = EmptyQueue
             /\ Mutations(Queue) \subseteq server'.pushed]_vars
    /\ [][(PushSettles /\ last'.resp # "2xx") =>
             /\ Returned(last', FALSE)
             /\ started' = started
             /\ Len(calls') = Len(calls) - 1
             /\ queueStore' = queueStore
             /\ server' = server]_vars
    /\ \A m \in RetryMutations :
          (m \in Mutations(Queue)) ~> (Queue = EmptyQueue /\ m \in server.pushed)

\* the flush of the page load failed, the flush the UI asked for afterwards
\* was accepted: the queue is empty and all of it is with the service
FlushedOnSecondAttempt ==
    /\ page.loaded /\ page.valid /\ page.has /\ page.online
    /\ started = 2
    /\ last.n = 2
    /\ last.op = "pushChanges"
    /\ last.alone
    /\ last.resp = "2xx"
    /\ Len(last.arg.deleted_entries) = 1
    /\ Mutations(last.arg) \subseteq server.pushed
    /\ Queue = EmptyQueue

----------------------------------------------------------------------------
(* C20  No duplication: when addEntry or addProduct has put its item in the *)
(* pending queue (it returned the provisional result), the gateway had not  *)
(* answered the create request with a 2xx status, well-formed body or not.  *)

QueuedItemWasNotAccepted ==
    ( /\ last.op \in {"addEntry", "addProduct"}
      /\ last.pc = "done"
      /\ Has(last.ret.val, "_offline") )
    => last.resp \notin {"2xx", "2xx_badjson"}

----------------------------------------------------------------------------
(* C21  The provisional result of an addEntry whose gateway call failed has *)
(* the fields of the input, with the input's values, plus id and _offline,  *)
(* and no other field; and the object the caller passed in is after the     *)
(* call what it was when the call was made.                                 *)

AddEntryResultIsCopyOfInput ==
    [][FellBack("addEntry") =>
          LET result == last'.ret.val
              input == InputOf(last'.n)
          IN /\ DOMAIN result = DOMAIN input \cup {"id", "_offline"}
             /\ \A f \in DOMAIN input : result[f] = input[f]
             /\ last'.arg = input]_vars

----------------------------------------------------------------------------
(* C22  The pending queue and the snapshot are kept apart.  The stored      *)
(* queue changes only in a step that settles addEntry, deleteEntry,         *)
(* addProduct or pushChanges, never in a step of syncAll.  The stored       *)
(* snapshot changes only in the step that settles a syncAll whose pull      *)
(* succeeded, and is then the pulled result as a whole (with its stamp):    *)
(* its data is the data pulled, not anything taken from the queue.          *)

QueueAndSnapshotApart ==
    [][/\ queueStore' # queueStore =>
             /\ last'.n # last.n
             /\ last'.op \in {"addEntry", "deleteEntry",
                              "addProduct", "pushChanges"}
       /\ Settles("syncAll") => queueStore' = queueStore
       /\ cacheStore' # cacheStore =>
             /\ Settles("syncAll")
             /\ last'.resp = "2xx"
             /\ cacheStore'.kind = "json"
             /\ DOMAIN cacheStore'.val =
                   DOMAIN last'.body \cup {"version", "cachedAt"}
             /\ \A f \in DOMAIN last'.body :
                   cacheStore'.val[f] = last'.body[f]
             /\ cacheStore'.val.data \in PulledData
             /\ Returned(last', cacheStore'.val.data)]_vars

\* a pull succeeded while an entry queued in this session was waiting: the
\* snapshot holds the pulled data, the entry is still queued
PulledBesideQueuedEntry ==
    /\ last.op = "syncAll"
    /\ last.resp = "2xx"
    /\ cacheStore.kind = "json"
    /\ cacheStore.val.data = [rev |-> 1]
    /\ Returned(last, [rev |-> 1])
    /\ Len(Queue.new_entries) >= 1
    /\ Queue.new_entries[Len(Queue.new_entries)].product = "bread"

----------------------------------------------------------------------------
(* The pending queue read from whatever is stored under its key.  The       *)
(* stored string may come from anywhere: besides a missing key and a string *)
(* that does not parse, an object that parses and has any of the four       *)
(* lists, each empty or with one item.  The operations are applied to it    *)
(* directly; reading a list that the object lacks is a TypeError.           *)

QueueLists == <<"new_entries", "deleted_entries",
                "new_products", "deleted_products">>

StoredItem(f) ==
    IF f = "new_entries" THEN [product |-> "apple", _tempId |-> TempIdAt(0)]
    ELSE IF f = "new_products" THEN [name |-> "kefir", _tempId |-> TempIdAt(1)]
    ELSE ServerId(0)

\* the objects with some of the four lists, some of those with an item
StoredObjects ==
    UNION {{[f \in D |-> IF f \in F THEN <<StoredItem(f)>> ELSE <<>>] :
               F \in SUBSET D} :
           D \in (SUBSET {QueueLists[k] : k \in 1..4}) \ {{}}}

StoredQueueValues == {Absent, Corrupt} \cup {Stringify(q) : q \in StoredObjects}

\* hasChanges from its k-th operand on: || stops at the first list with an
\* item, .length of a list that is not there throws
RECURSIVE HasChangesFrom(_, _)
HasChangesFrom(queue, k) ==
    IF k > 4 THEN "false"
    ELSE IF ~Has(queue, QueueLists[k]) THEN "TypeError"
    ELSE IF Len(queue[QueueLists[k]]) > 0 THEN "true"
    ELSE HasChangesFrom(queue, k + 1)

OfflineQueue_hasChanges_outcome(store) ==
    HasChangesFrom(OfflineQueue_get(store), 1)

\* addEntry: queue.new_entries.push throws when the list is not there
OfflineQueue_addEntry_outcome(store, entry, t) ==
    IF ~Has(OfflineQueue_get(store), "new_entries")
    THEN [store |-> store, threw |-> TRUE]
    ELSE LET q == OfflineQueue_addEntry(store, entry, t, TRUE)
         IN [store |-> q.store, threw |-> FALSE, ret |-> q.ret]

InitStored ==
    /\ now = fiveMinutes
    /\ ticks = 0
    /\ cacheStore = Absent
    /\ queueStore \in StoredQueueValues
    /\ calls = <<>>
    /\ started = 0
    /\ last = NewCall(0, "none", NoValue)
    /\ server = [pushed |-> {}]
    /\ page = [loaded |-> FALSE]

StoredGet ==
    /\ started < MaxCalls
    /\ started' = started + 1
    /\ last' = Resolve(NewCall(started + 1, "OfflineQueue.get", NoValue),
                       OfflineQueue_get(queueStore))
    /\ UNCHANGED <<now, ticks, cacheStore, queueStore, calls, server, page>>

StoredHasChanges ==
    /\ started < MaxCalls
    /\ started' = started + 1
    /\ LET c == NewCall(started + 1, "OfflineQueue.hasChanges", NoValue)
           out == OfflineQueue_hasChanges_outcome(queueStore)
       IN last' = IF out = "TypeError" THEN Reject(c)
                  ELSE Resolve(c, out = "true")
    /\ UNCHANGED <<now, ticks, cacheStore, queueStore, calls, server, page>>

StoredAddEntry(e) ==
    /\ started < MaxCalls
    /\ started' = started + 1
    /\ LET c == NewCall(started + 1, "OfflineQueue.addEntry", e)
           out == OfflineQueue_addEntry_outcome(queueStore, e, now)
       IN /\ queueStore' = out.store
          /\ last' = IF out.threw THEN Reject(c) ELSE Resolve(c, out.ret)
    /\ UNCHANGED <<now, ticks, cacheStore, calls, server, page>>

NextStored ==
    \/ StoredGet
    \/ StoredHasChanges
    \/ \E e \in EntryInputs : StoredAddEntry(e)

SpecStored == InitStored /\ [][NextStored]_vars

----------------------------------------------------------------------------
(* C23  getQueue gives a queue with all four lists whatever is stored under *)
(* the key: four empty lists when the key is missing or the string does not *)
(* parse, and never a value on which hasChanges() or an enqueue fails.      *)

GetQueueAlwaysUsable ==
    /\ last.op = "OfflineQueue.get" =>
          /\ last.pc = "done"
          /\ \A k \in 1..4 : Has(last.ret.val, QueueLists[k])
          /\ queueStore.kind # "json" =>
                \A k \in 1..4 : last.ret.val[QueueLists[k]] = <<>>
    /\ last.op \in {"OfflineQueue.hasChanges", "OfflineQueue.addEntry"} =>
          last.pc = "done"

----------------------------------------------------------------------------
(* C24  getSnapshot gives null when the key is missing, when the stored     *)
(* string does not parse and when the stored version is not the current     *)
(* one; it gives the stored snapshot when the version is the current one,   *)
(* however old the snapshot is.  It raises nothing.                         *)

GetSnapshotFailsSoft ==
    LET got == AppCache_get(cacheStore)
    IN /\ cacheStore.kind \in {"absent", "corrupt"} => got = [kind |-> "null"]
       /\ (cacheStore.kind = "json" /\ cacheStore.val.version # "1.0") =>
             got = [kind |-> "null"]
       /\ (cacheStore.kind = "json" /\ cacheStore.val.version = "1.0") =>
             got = cacheStore.val

\* a pull failed with a snapshot of another version stored: syncAll found
\* no snapshot
SnapshotOfOldVersionNotServed ==
    /\ last.op = "syncAll"
    /\ last.resp = "neterr"
    /\ cacheStore.kind = "json"
    /\ cacheStore.val.version = "0.9"
    /\ Returned(last, Null)

----------------------------------------------------------------------------
(* AppCache.set called with any object.  In the program only syncAll calls  *)
(* it, with the parsed body of the pull; here it is also called directly,   *)
(* with objects that bring a version and a cachedAt of their own.           *)

SnapshotArgs ==
    {[success |-> TRUE, data |-> [rev |-> 1]],
     [success |-> TRUE, data |-> [rev |-> 1], version |-> OLD_VERSION,
      cachedAt |-> ToISOString(0)]}

SetSnapshotCall(d) ==
    /\ CanCall
    /\ cacheStore' = AppCache_set(cacheStore, d, now, TRUE)
    /\ Begin(Resolve(NewCall(started + 1, "AppCache.set", d), Null))
    /\ UNCHANGED <<now, ticks, queueStore, server, page>>

NextSet ==
    \/ Tick
    \/ \E online \in BOOLEAN : PageLoad(online)
    \/ SyncAllStart
    \/ PullAnswered
    \/ PushAnswered
    \/ \E d \in SnapshotArgs : SetSnapshotCall(d)

SpecSet == Init /\ [][NextSet]_vars

\* this step has stored a snapshot: a direct AppCache.set, or a pull that
\* succeeded
StoresSnapshot ==
    \/ Settles("AppCache.set")
    \/ Settles("syncAll") /\ last'.resp = "2xx"

----------------------------------------------------------------------------
(* C25  setSnapshot stamps the snapshot itself: whatever version and        *)
(* cachedAt its argument brings, the stored snapshot has the current        *)
(* schema version and the current time.  So, the storage write succeeding,  *)
(* isValid() is true right after every successful syncAll, and the          *)
(* cachedAt stored never goes back from one stored snapshot to the next.    *)

SetSnapshotStampsItself ==
    [][StoresSnapshot =>
          /\ cacheStore'.kind = "json"
          /\ cacheStore'.val.version = "1.0"
          /\ cacheStore'.val.cachedAt.sec * 1000
                + cacheStore'.val.cachedAt.msec = now
          /\ AppCache_isValid(cacheStore', now')
          /\ (cacheStore.kind = "json" /\ Has(cacheStore.val, "cachedAt")) =>
                GetTime(cacheStore.val.cachedAt)
                   <= GetTime(cacheStore'.val.cachedAt)]_vars

\* an object that came with version 0.9 and a cachedAt five minutes back
\* was stored after the clock had moved: the snapshot is current and fresh
SuppliedStampOverwritten ==
    /\ last.op = "AppCache.set"
    /\ Has(last.arg, "version")
    /\ last.arg.version = "0.9"
    /\ GetTime(last.arg.cachedAt) = 0
    /\ cacheStore.kind = "json"
    /\ cacheStore.val.version = "1.0"
    /\ now > 300000
    /\ GetTime(cacheStore.val.cachedAt) = now

====
